---- MODULE Spec2Model ----
(***************************************************************************)
(* Dashboard.py: a Streamlit script.  Every (re)run executes the script    *)
(* top to bottom: load_data() (memoised by @st.cache_data), the empty      *)
(* check, the filter widgets, and the rest of the pipeline.  The only      *)
(* state that survives a run is the st.cache_data memo.                    *)
(*                                                                         *)
(* load_data returns at line 22, right after pd.DataFrame(data); lines     *)
(* 27-53 (parsing of created_at, normalisation of sexe, fillna of ville)   *)
(* sit after the `return` of the first except clause and never run.  The   *)
(* DataFrame the script works on therefore holds the raw JSON values.      *)
(***************************************************************************)
EXTENDS Integers, Sequences, FiniteSets, TLC

\* Largest number of records in a JSON body of the API (bound of the model).
MaxRows == 2

\* JSON null / a missing key (None or NaN in the DataFrame).
Null == "<null>"

\* ------------------------------------------------------------------------
\* Values the API can send.  JSON carries strings, numbers and null only:
\* no cell of pd.DataFrame(data) is a datetime.
\* ------------------------------------------------------------------------
RawSexe == {"f", "Homme", Null}
RawVille == {"Fes", "Rabat", Null}
RawId == {"7", Null}

\* A created_at cell: kind "str" is a raw string, "null" a missing value,
\* "datetime" a parsed timestamp and "NaT" the missing timestamp.  m, d, s
\* are the month, the day of the month and the second of the day the value
\* denotes (0 when it denotes none).
Cell(k, m, d, s) == [kind |-> k, m |-> m, d |-> d, s |-> s]
NullCell == Cell("null", 0, 0, 0)
BadStr == Cell("str", 0, 0, 0)
NaT == Cell("NaT", 0, 0, 0)
RawCreatedAt == {Cell("str", 1, 15, 36000), BadStr, NullCell}

Records == [sexe : RawSexe, ville : RawVille, created_at : RawCreatedAt, id : RawId]

RECURSIVE SeqsUpTo(_, _)
SeqsUpTo(S, n) ==
    IF n = 0 THEN {<<>>}
    ELSE LET shorter == SeqsUpTo(S, n - 1)
         IN shorter \cup {Append(q, x) : q \in {t \in shorter : Len(t) = n - 1}, x \in S}

\* The JSON bodies of a 2xx answer: a list of 0..MaxRows records.
Bodies == SeqsUpTo(Records, MaxRows)

\* What requests.get / raise_for_status / response.json can do (lines 18-20).
Failures == {"conn_error", "http_error", "bad_json"}

VARIABLES
    pc,             \* position of the current script run
    cache,          \* st.cache_data memo of load_data: survives reruns
    http_outcome,   \* outcome of the HTTP call of this run, "none" if no call
    api_data,       \* JSON body of the last 2xx answer
    df,             \* line 56
    shown,          \* st.* elements emitted in this run
    bound,          \* names the script has assigned from line 64 on, this run
    sexe_options, sexe_selected,    \* lines 67-68
    ville_options, ville_selected,  \* lines 71-72
    out             \* values of the names assigned from line 75 on

vars == <<pc, cache, http_outcome, api_data, df, shown, bound,
          sexe_options, sexe_selected, ville_options, ville_selected, out>>

\* ------------------------------------------------------------------------
\* load_data (lines 14-53)
\* ------------------------------------------------------------------------

\* Lines 16-25: the value load_data returns and the elements it emits.  Any
\* exception of requests.get, raise_for_status or response.json is caught at
\* line 23; a 2xx JSON body is returned as pd.DataFrame(data), untouched.
load_data(outcome, data) ==
    IF outcome \in Failures
    THEN [df |-> <<>>, elements |-> {"error"}]
    ELSE [df |-> data, elements |-> {}]

\* Line 31 and 34 (after the return of line 25, never executed):
\* pd.to_datetime(errors="coerce") followed by tz_localize(None).
to_datetime(c) ==
    IF c.kind = "datetime" \/ (c.kind = "str" /\ c.m > 0)
    THEN Cell("datetime", c.m, c.d, c.s)
    ELSE NaT

\* str.lower() on the values of the model; astype(str) turns None into "None".
Lower(v) ==
    CASE v = "Homme" -> "homme"
      [] v = Null -> "none"
      [] OTHER -> v

\* Lines 37-44 (never executed): lower-case, map the known labels, send
\* everything else to "Inconnu".
normalise_sexe(v) ==
    LET l == Lower(v)
        r == CASE l \in {"f", "femme", "female"} -> "Femme"
               [] l \in {"m", "homme", "male"} -> "Homme"
               [] OTHER -> l
    IN IF r \in {"Femme", "Homme"} THEN r ELSE "Inconnu"

\* Line 47 (never executed): fillna("Inconnue").
fillna_ville(v) == IF v = Null THEN "Inconnue" ELSE v

\* ------------------------------------------------------------------------
\* The script after load_data (lines 56-193)
\* ------------------------------------------------------------------------

\* Line 59 written as `if df is None:` - never true of a DataFrame.
df_is_none(d) == FALSE

\* Line 59: df.empty.
df_empty(d) == Len(d) = 0

Column(d, col) == {d[i][col] : i \in 1..Len(d)}

\* Code-point order of the strings of the model (upper case before lower).
StrRank(v) ==
    CASE v = "Femme" -> 1
      [] v = "Fes" -> 2
      [] v = "Homme" -> 3
      [] v = "Inconnu" -> 4
      [] v = "Inconnue" -> 5
      [] v = "Rabat" -> 6
      [] v = "f" -> 7
      [] OTHER -> 0

\* Lines 67 and 71: sorted(...) compares the values pairwise; None against a
\* str raises TypeError.
CanSort(vals) == ~(Null \in vals /\ vals # {Null})

RECURSIVE Sorted(_)
Sorted(vals) ==
    IF vals = {} THEN <<>>
    ELSE LET least == CHOOSE v \in vals : \A w \in vals : StrRank(v) <= StrRank(w)
         IN <<least>> \o Sorted(vals \ {least})

\* Lines 67 and 71: [first] + sorted(df[col].unique()).
Options(first, d, col) == <<first>> \o Sorted(Column(d, col))

\* Lines 75-76: df["created_at"].min() / .max() skip the missing values; the
\* result has a .date() method only if it is a timestamp.  With the
\* DataFrame of line 21 it is a str (or NaN when every value is missing).
MinHasDate(d) == \E i \in 1..Len(d) : d[i].created_at.kind = "datetime"

\* Order of the timestamps (month, day, second of the day).
Key(m, d, s) == (m * 31 + d) * 86400 + s

\* Lines 80-97: the three masks, applied one after the other.  A comparison
\* with a missing value (None, NaT) is False in pandas.
FilterRows(d, sexe_sel, ville_sel, range) ==
    LET start_date == Key(range[1].m, range[1].d, 0)
        end_date == Key(range[2].m, range[2].d, 0) + (23 * 3600 + 59 * 60 + 59)
        Keep(r) ==
            /\ sexe_sel # "Tous" => (sexe_sel # Null /\ r.sexe = sexe_sel)
            /\ ville_sel # "Toutes" => (ville_sel # Null /\ r.ville = ville_sel)
            /\ r.created_at.kind = "datetime"
            /\ Key(r.created_at.m, r.created_at.d, r.created_at.s) >= start_date
            /\ Key(r.created_at.m, r.created_at.d, r.created_at.s) <= end_date
    IN SelectSeq(d, Keep)

\* Lines 103-104: (filtered_df["sexe"] == label).sum().
CountSexe(f, label) == Cardinality({i \in 1..Len(f) : f[i].sexe = label})

\* Lines 135 and 148: value_counts() counts each value present and drops the
\* missing ones (dropna=True is the default).
ValueCounts(f, col) ==
    [v \in Column(f, col) \ {Null} |-> Cardinality({i \in 1..Len(f) : f[i][col] = v})]

\* Lines 161-167: resample("M", on="created_at")["id"].count() has one entry
\* per month from the first to the last month present, counting the rows of
\* the month whose id is not missing.  (The records of the model always have
\* the key "id", so the branch of line 169 is not taken.)
MonthlyCounts(f) ==
    LET months == {f[i].created_at.m : i \in 1..Len(f)}
        first == CHOOSE m \in months : \A n \in months : m <= n
        last == CHOOSE m \in months : \A n \in months : m >= n
    IN [m \in first..last |->
          Cardinality({i \in 1..Len(f) : f[i].created_at.m = m /\ f[i].id # Null})]

\* ------------------------------------------------------------------------
\* State
\* ------------------------------------------------------------------------
Unbound == "<unbound>"
NoDate == [m |-> 0, d |-> 0]
NoCache == [filled |-> FALSE, df |-> <<>>, elements |-> {}]

\* The names assigned from line 75 on, before any of them is assigned.
NoOut == [date_range |-> <<NoDate, NoDate>>,
          filtered_df |-> <<>>,
          total_contacts |-> 0, total_femmes |-> 0, total_hommes |-> 0,
          sexe_counts_filtered |-> <<>>,
          ville_counts_filtered |-> <<>>,
          monthly_counts |-> <<>>]

Responses ==
    {[outcome |-> o, data |-> <<>>] : o \in Failures}
        \cup {[outcome |-> "ok", data |-> b] : b \in Bodies}

Init ==
    /\ pc = "load"
    /\ cache = NoCache
    /\ http_outcome = "none"
    /\ api_data = <<>>
    /\ df = <<>>
    /\ shown = {}
    /\ bound = {}
    /\ sexe_options = <<>>
    /\ sexe_selected = Unbound
    /\ ville_options = <<>>
    /\ ville_selected = Unbound
    /\ out = NoOut

\* An uncaught exception: Streamlit shows it and the run ends there.
Raise ==
    /\ pc' = "crashed"
    /\ shown' = shown \cup {"exception"}

\* Line 56, first call: @st.cache_data (line 14, no ttl, no max_entries) has
\* no entry, so load_data runs, issues the HTTP request and its return value
\* and emitted elements are memoised - also the empty frame of a failed call.
LoadDataMiss ==
    /\ pc = "load"
    /\ ~cache.filled
    /\ \E resp \in Responses :
         LET r == load_data(resp.outcome, resp.data)
         IN /\ http_outcome' = resp.outcome
            /\ api_data' = resp.data
            /\ cache' = [filled |-> TRUE, df |-> r.df, elements |-> r.elements]
            /\ df' = r.df
            /\ shown' = shown \cup r.elements
    /\ pc' = "check"
    /\ UNCHANGED <<bound, sexe_options, sexe_selected, ville_options, ville_selected, out>>

\* Line 56, later calls: the memo answers, load_data's body does not run and
\* no HTTP request is made; the memoised elements are replayed.
LoadDataHit ==
    /\ pc = "load"
    /\ cache.filled
    /\ df' = cache.df
    /\ shown' = shown \cup cache.elements
    /\ pc' = "check"
    /\ UNCHANGED <<cache, http_outcome, api_data, bound,
                   sexe_options, sexe_selected, ville_options, ville_selected, out>>

\* Lines 59-61: warning and st.stop() on an empty frame.
CheckEmpty ==
    /\ pc = "check"
    /\ IF df_empty(df)
       THEN /\ shown' = shown \cup {"warning"}
            /\ pc' = "stopped"
       ELSE /\ pc' = "sexe"
            /\ UNCHANGED shown
    /\ UNCHANGED <<cache, http_outcome, api_data, df, bound,
                   sexe_options, sexe_selected, ville_options, ville_selected, out>>

\* Lines 64-68: the option list and the user's choice among the options.
SexeFilter ==
    /\ pc = "sexe"
    /\ IF CanSort(Column(df, "sexe"))
       THEN LET opts == Options("Tous", df, "sexe")
            IN /\ sexe_options' = opts
               /\ \E i \in 1..Len(opts) : sexe_selected' = opts[i]
               /\ bound' = bound \cup {"sexe_options", "sexe_selected"}
               /\ pc' = "ville"
               /\ UNCHANGED shown
       ELSE /\ Raise
            /\ UNCHANGED <<bound, sexe_options, sexe_selected>>
    /\ UNCHANGED <<cache, http_outcome, api_data, df, ville_options, ville_selected, out>>

\* Lines 71-72.
VilleFilter ==
    /\ pc = "ville"
    /\ IF CanSort(Column(df, "ville"))
       THEN LET opts == Options("Toutes", df, "ville")
            IN /\ ville_options' = opts
               /\ \E i \in 1..Len(opts) : ville_selected' = opts[i]
               /\ bound' = bound \cup {"ville_options", "ville_selected"}
               /\ pc' = "min_date"
               /\ UNCHANGED shown
       ELSE /\ Raise
            /\ UNCHANGED <<bound, ville_options, ville_selected>>
    /\ UNCHANGED <<cache, http_outcome, api_data, df, sexe_options, sexe_selected, out>>

\* Line 75: df["created_at"].min().date().  No cell of the frame of line 21
\* is a timestamp, so the call raises AttributeError (TypeError when pandas
\* cannot order the values) and the run ends: lines 76-193 are not reached.
MinDate ==
    /\ pc = "min_date"
    /\ ~MinHasDate(df)
    /\ Raise
    /\ UNCHANGED <<cache, http_outcome, api_data, df, bound,
                   sexe_options, sexe_selected, ville_options, ville_selected, out>>

\* A rerun of the script (widget interaction, page reload): a fresh run,
\* with the st.cache_data memo kept.
Rerun ==
    /\ pc \in {"stopped", "crashed"}
    /\ pc' = "load"
    /\ http_outcome' = "none"
    /\ df' = <<>>
    /\ shown' = {}
    /\ bound' = {}
    /\ sexe_options' = <<>>
    /\ sexe_selected' = Unbound
    /\ ville_options' = <<>>
    /\ ville_selected' = Unbound
    /\ out' = NoOut
    /\ UNCHANGED <<cache, api_data>>

Next ==
    \/ LoadDataMiss
    \/ LoadDataHit
    \/ CheckEmpty
    \/ SexeFilter
    \/ VilleFilter
    \/ MinDate
    \/ Rerun

Spec == Init /\ [][Next]_vars

\* Every started run is carried to its end and reruns keep coming.
FairSpec == Spec /\ WF_vars(Next)

TypeOK ==
    /\ pc \in {"load", "check", "sexe", "ville", "min_date", "stopped", "crashed"}
    /\ http_outcome \in Failures \cup {"none", "ok"}
    /\ df \in Bodies
    /\ api_data \in Bodies
    /\ out = NoOut

\* Line 75 raises whenever it is reached.
MinDateRaises == pc = "min_date" => ~MinHasDate(df)

\* ------------------------------------------------------------------------
\* Properties
\* ------------------------------------------------------------------------

\* The current run has got its frame from a load_data that did not fail.
LoadedOK == pc # "load" /\ "error" \notin shown

\* The current run is over (st.stop() or an uncaught exception; "done" is the
\* end of the script, line 193).
RunOver == pc \in {"stopped", "crashed", "done"}

\* Indices of the records the gender and city selections keep.
Matching(d) ==
    {i \in 1..Len(d) :
        /\ sexe_selected \in {"Tous", d[i].sexe}
        /\ ville_selected \in {"Toutes", d[i].ville}}

\* Those of them whose created_at denotes a date.
Selected(d) == {i \in Matching(d) : to_datetime(d[i].created_at) # NaT}

\* Group-count with one entry per value present, missing values included.
GroupCount(f, col) ==
    [v \in Column(f, col) |-> Cardinality({i \in 1..Len(f) : f[i][col] = v})]

RECURSIVE SumOver(_, _)
SumOver(f, S) ==
    IF S = {} THEN 0
    ELSE LET x == CHOOSE y \in S : TRUE IN f[x] + SumOver(f, S \ {x})

Total(f) == SumOver(f, DOMAIN f)

\* C1: when the HTTP call of a run fails (connection error, non-2xx status,
\* invalid JSON), load_data raises nothing and returns the empty frame; the
\* run's next step is the warning followed by st.stop(), and the run executes
\* no filter, KPI, chart or table step.
C1_FailedLoadStops ==
    /\ [](http_outcome \in Failures =>
            /\ df_empty(df)
            /\ pc \in {"check", "stopped"}
            /\ pc = "stopped" => "warning" \in shown
            /\ shown \subseteq {"error", "warning"}
            /\ bound = {})
    /\ [][(http_outcome \in Failures /\ pc = "check")
            => (pc' = "stopped" /\ "warning" \in shown')]_vars

C1_Witness ==
    /\ http_outcome \in Failures
    /\ pc = "stopped"
    /\ shown = {"error", "warning"}

\* C2: every record of the frame of a successful load_data carries the
\* normalised gender of the record the API sent, hence one of "Femme",
\* "Homme", "Inconnu".
C2_SexeNormalised ==
    LoadedOK =>
        /\ Len(df) = Len(api_data)
        /\ \A i \in 1..Len(df) :
             /\ df[i].sexe = normalise_sexe(api_data[i].sexe)
             /\ df[i].sexe \in {"Femme", "Homme", "Inconnu"}

\* C3: a run over a non-empty frame yields as filtered rows exactly the
\* records that satisfy the gender, city and date-range selections.
C3_FilterExact ==
    (RunOver /\ ~df_empty(df)) =>
        /\ "filtered_df" \in bound
        /\ out.filtered_df =
             FilterRows(df, sexe_selected, ville_selected, out.date_range)

\* C4: a memoised result of load_data is not kept forever: from any rerun
\* that starts with a memoised result, some later call of load_data issues a
\* new HTTP request.
C4_Refreshed == [](pc = "load" /\ cache.filled => <>(http_outcome # "none"))

\* C5: no record of the frame of a successful load_data has a missing city;
\* a missing city has become "Inconnue".
C5_VilleFilled ==
    LoadedOK =>
        /\ Len(df) = Len(api_data)
        /\ \A i \in 1..Len(df) :
             /\ df[i].ville = fillna_ville(api_data[i].ville)
             /\ df[i].ville # Null

\* C6: when the date-range bounds are about to be computed (line 75), every
\* created_at of the frame is a parsed timestamp or the missing timestamp.
C6_CreatedAtParsed ==
    pc = "min_date" =>
        /\ Len(df) = Len(api_data)
        /\ \A i \in 1..Len(df) :
             /\ df[i].created_at = to_datetime(api_data[i].created_at)
             /\ df[i].created_at.kind \in {"datetime", "NaT"}

\* C7: a run over a non-empty frame yields per-gender and per-city series
\* that are the group-counts of the filtered rows, each summing to the
\* total-contacts KPI, and "Femme"/"Homme" KPIs equal to their entries of the
\* per-gender series.
C7_GroupCounts ==
    (RunOver /\ ~df_empty(df)) =>
        /\ {"total_contacts", "sexe_counts_filtered", "ville_counts_filtered"}
              \subseteq bound
        /\ out.total_contacts = Len(out.filtered_df)
        /\ out.sexe_counts_filtered = GroupCount(out.filtered_df, "sexe")
        /\ out.ville_counts_filtered = GroupCount(out.filtered_df, "ville")
        /\ Total(out.sexe_counts_filtered) = out.total_contacts
        /\ Total(out.ville_counts_filtered) = out.total_contacts
        /\ out.total_femmes = CountSexe(out.filtered_df, "Femme")
        /\ out.total_hommes = CountSexe(out.filtered_df, "Homme")
        /\ out.total_femmes + out.total_hommes <= out.total_contacts

\* C8: a run whose selections keep at least one dated record yields a
\* monthly series whose counts sum to the number of filtered rows.
C8_MonthlySum ==
    (RunOver /\ Selected(df) # {}) =>
        /\ "monthly_counts" \in bound
        /\ Total(out.monthly_counts) = Len(out.filtered_df)

\* C9: with the default selections ("Tous", "Toutes", the default date
\* range) the total-contacts KPI of a run over a non-empty frame is the
\* number of records loaded.
C9_DefaultIsIdentity ==
    (RunOver /\ ~df_empty(df)
        /\ sexe_selected = "Tous" /\ ville_selected = "Toutes") =>
        /\ "total_contacts" \in bound
        /\ out.filtered_df = df
        /\ out.total_contacts = Len(df)

\* C10: a run over a non-empty frame whose gender and city selections keep
\* no record still completes: KPIs, pie chart, bar chart and table are
\* rendered, the info message replaces the line chart.
C10_EmptySelectionCompletes ==
    (RunOver /\ ~df_empty(df)
        /\ {"sexe_selected", "ville_selected"} \subseteq bound
        /\ Matching(df) = {}) =>
        /\ pc = "done"
        /\ {"kpis", "pie", "bar", "info", "table"} \subseteq shown
        /\ "line" \notin shown

====
